---- MODULE Spec2Model ----
(***************************************************************************)
(* Model of the client event loop of utils/state.js: the event queue and   *)
(* its gate event_processing, the socket callbacks, the upload requests    *)
(* with their streamed responses, delta application and client storage.    *)
(*                                                                         *)
(* JavaScript runs one task at a time, so every action below is one task:  *)
(* the synchronous run of a callback, then the microtasks it left behind,  *)
(* in the order in which they were left.  The microtasks of this program   *)
(* are the continuations of processEvent after its await of applyEvent or  *)
(* applyRestEvent on an event that was handled without a later task; the   *)
(* one await that a later task completes is that of a _call_script event   *)
(* on a promise.                                                           *)
(***************************************************************************)
EXTENDS Integers, Sequences, FiniteSets, TLC

\* ------------------------------------------------------------- bounds
\* Events appended to event_queue over a run.
MaxEvents == 6
\* connect_error callbacks over a run.
MaxErrors == 3
\* Lines an upload's response stream carries.
MaxLines == 2
\* Events appended to event_queue up to the last special event of the page.
MaxSpecial == 3

\* ------------------------------------------------------------- values
\* A JavaScript scalar n is [s |-> n] (0 is false, 1 is true); an object is
\* a record of its own fields, so that all values are comparable.
S(n) == [s |-> n]
Truthy(v) == ("s" \in DOMAIN v) => (v.s # 0)

\* String(v), as localStorage.setItem stores it: -1 stands for
\* "[object Object]".
StringOf(v) == IF "s" \in DOMAIN v THEN [str |-> v.s] ELSE [str |-> -1]

UploadIds == {"u1", "u2"}

StorageSpecials == {"_remove_cookie", "_clear_local_storage", "_remove_local_storage"}

SpecialNames ==
    {"_redirect", "_console", "_set_clipboard", "_download", "_alert",
     "_set_focus", "_set_value", "_call_script"} \cup StorageSpecials

\* Event(name, payload, handler); id is bookkeeping of the model: the
\* position of the event in the order of all appends.
\* token is 0 and router_data is "" where the event has none (router_data
\* undefined or an object without keys); ref says what payload.ref
\* resolves to, and throws that the script of the payload throws when
\* evaluated.
Event(name, handler) ==
    [id |-> 0, name |-> name, handler |-> handler,
     upload_id |-> "", files |-> 0, promise |-> FALSE, key |-> "",
     token |-> 0, router_data |-> "", ref |-> "", throws |-> FALSE]

UploadEvent(u, nfiles) ==
    [Event("upload", "uploadFiles") EXCEPT !.upload_id = u, !.files = nfiles]

ScriptEvent(isPromise) ==
    [Event("_call_script", "") EXCEPT !.promise = isPromise]

KeyEvent(name, k) == [Event(name, "") EXCEPT !.key = k]

\* The route of the page: Router, and router in useEventLoop.
Router == "/"

\* initialEvents() of utils/context.js: the hydrate event and the on_load
\* event of the page.
InitialEvents == << Event("hydrate", ""), Event("on_load_internal", "") >>

\* ------------------------------------------------------ state and delta
\* "state.new" is a substate the page does not know: initialState and
\* dispatch have no entry for it.
SubstateOrder == << "state", "state.sub", "other", "state.new" >>
FieldOrder == << "is_hydrated", "x", "y" >>

\* key.split(".").length === 1
Dotless(k) == k \in {"state", "other"}

\* `${substate}.${key}`
StateKey(substate, key) ==
    CASE substate = "state" /\ key = "is_hydrated" -> "state.is_hydrated"
      [] substate = "state" /\ key = "x" -> "state.x"
      [] substate = "state" /\ key = "y" -> "state.y"
      [] substate = "state.sub" /\ key = "is_hydrated" -> "state.sub.is_hydrated"
      [] substate = "state.sub" /\ key = "x" -> "state.sub.x"
      [] substate = "state.sub" /\ key = "y" -> "state.sub.y"
      [] substate = "other" /\ key = "is_hydrated" -> "other.is_hydrated"
      [] substate = "other" /\ key = "x" -> "other.x"
      [] substate = "other" /\ key = "y" -> "other.y"
      [] substate = "state.new" /\ key = "is_hydrated" -> "state.new.is_hydrated"
      [] substate = "state.new" /\ key = "x" -> "state.new.x"
      [] substate = "state.new" /\ key = "y" -> "state.new.y"

\* initialState of utils/context.js: the substates the page knows, which
\* are also the keys of dispatch.
InitialState ==
    ("state" :> [is_hydrated |-> S(0), x |-> S(0)]) @@
    ("state.sub" :> [x |-> [p |-> 1], y |-> S(0)]) @@
    ("other" :> [x |-> S(0)])

VARIABLES
    event_queue,        \* const event_queue = []
    event_processing,   \* let event_processing = false
    upload_controllers, \* upload_id -> id of the call that registered (0: none)
    socket,             \* socket.current is set
    connectErrors,      \* the connectErrors state of useEventLoop
    closureErrors,      \* the connectErrors value connect() was called with
    sentHydrate,        \* sentHydrate.current
    state,              \* the reducers' substates
    cookies,            \* the cookie store: name -> value
    local_storage,      \* window.localStorage: name -> string
    client_storage,     \* the client storage configuration of the page
    connected,          \* the transport is up
    inflight,           \* events emitted and still awaiting their final Update
    uploads,            \* every uploadFiles call so far, by the id of its event
    suspended,          \* ids of _call_script events suspended at their await
    appended,           \* number of events appended to event_queue so far
    handled,            \* ids of the events dequeued so far, in order
    requeued,           \* per storage special event handled: what it re-enqueued
    sent,               \* ids of the events given to socket.emit, in order
    errorsArrived,      \* connect_error callbacks since the last connect
    errorCount,         \* connect_error callbacks so far
    last,               \* what the last run of the message handler saw and did
    token,              \* let token (0: undefined)
    session_storage,    \* window.sessionStorage under TOKEN_KEY (0: no item)
    generated,          \* calls of generateUUID so far
    tokens,             \* the tokens that emitted events and upload requests carried
    emitted,            \* the last event given to socket.emit, before and as sent
    hydration,          \* the last call of hydrateClientStorage: its stores and result
    owner               \* the event dequeued last

vars == << event_queue, event_processing, upload_controllers, socket,
           connectErrors, closureErrors, sentHydrate, state, cookies,
           local_storage, client_storage, connected, inflight, uploads,
           suspended, appended, handled, requeued, sent, errorsArrived,
           errorCount, last, token, session_storage, generated, tokens,
           emitted, hydration, owner >>

\* The part of the state the queue, the message handler and the uploads
\* work on, as one record, so that handlers calling each other compose.
\* continuations counts the calls of processEvent of the running task that
\* wait, at their await, for a microtask to go on.
Machine ==
    [event_queue |-> event_queue, event_processing |-> event_processing,
     upload_controllers |-> upload_controllers, state |-> state,
     cookies |-> cookies, local_storage |-> local_storage,
     inflight |-> inflight, uploads |-> uploads, suspended |-> suspended,
     appended |-> appended, handled |-> handled, requeued |-> requeued,
     sent |-> sent, last |-> last, token |-> token,
     session_storage |-> session_storage, generated |-> generated,
     tokens |-> tokens, emitted |-> emitted, owner |-> owner,
     continuations |-> 0]

Commit(m) ==
    /\ m.continuations = 0
    /\ event_queue' = m.event_queue
    /\ event_processing' = m.event_processing
    /\ upload_controllers' = m.upload_controllers
    /\ state' = m.state
    /\ cookies' = m.cookies
    /\ local_storage' = m.local_storage
    /\ inflight' = m.inflight
    /\ uploads' = m.uploads
    /\ suspended' = m.suspended
    /\ appended' = m.appended
    /\ handled' = m.handled
    /\ requeued' = m.requeued
    /\ sent' = m.sent
    /\ last' = m.last
    /\ token' = m.token
    /\ session_storage' = m.session_storage
    /\ generated' = m.generated
    /\ tokens' = m.tokens
    /\ emitted' = m.emitted
    /\ owner' = m.owner

\* ------------------------------------------------------------ the token
\* generateUUID(): a random identifier, different at every call; n is the
\* number of calls before this one.
generateUUID(n) == n + 1

\* getToken reading sessionStorage at every call, without the cached
\* token.
getTokenUncached(m, window) ==
    IF window
    THEN LET m1 == IF m.session_storage = 0
                   THEN [m EXCEPT !.session_storage = generateUUID(m.generated),
                                  !.generated = @ + 1]
                   ELSE m
         IN  [m1 EXCEPT !.token = m1.session_storage]
    ELSE m

\* getToken(): the machine after the call, whose token is the value
\* returned; window says whether typeof window !== "undefined".
getToken(m, window) ==
    IF m.token # 0 THEN m
    ELSE IF window
    THEN LET m1 == IF m.session_storage = 0
                   THEN [m EXCEPT !.session_storage = generateUUID(m.generated),
                                  !.generated = @ + 1]
                   ELSE m
         IN  [m1 EXCEPT !.token = m1.session_storage]
    ELSE m

\* ------------------------------------------------------- delta, storage
\* applyDelta returning the delta alone, dropping the fields it does not
\* name.
applyDeltaReplace(st, delta) == delta

\* { ...state, ...delta }
applyDelta(st, delta) == delta @@ st

\* JSON.stringify(value), as universal-cookie's set stores a non-string.
CookieString(v) == [json |-> v]

\* The (substate, key) pairs of a delta in the order the two for-in loops
\* visit them.
RECURSIVE PairsFrom(_, _, _)
PairsFrom(delta, i, j) ==
    IF i > Len(SubstateOrder) THEN << >>
    ELSE IF j > Len(FieldOrder) THEN PairsFrom(delta, i + 1, 1)
    ELSE IF /\ SubstateOrder[i] \in DOMAIN delta
            /\ FieldOrder[j] \in DOMAIN delta[SubstateOrder[i]]
         THEN << << SubstateOrder[i], FieldOrder[j] >> >> \o PairsFrom(delta, i, j + 1)
         ELSE PairsFrom(delta, i, j + 1)

DeltaPairs(delta) == PairsFrom(delta, 1, 1)

\* options.name || state_key
ExternalName(options, state_key) ==
    IF options.name # "" THEN options.name ELSE state_key

\* The loop body with the two branches in the other order: localStorage
\* is looked at before the cookies.
StoreOneLocalFirst(cs, delta, st, pair) ==
    LET state_key == StateKey(pair[1], pair[2])
        value == delta[pair[1]][pair[2]]
    IN  IF state_key \in DOMAIN cs.local_storage
        THEN LET name == ExternalName(cs.local_storage[state_key], state_key)
             IN  [st EXCEPT !.local_storage = (name :> StringOf(value)) @@ @,
                            !.writes = Append(@, [store |-> "local", name |-> name,
                                                  value |-> StringOf(value)])]
        ELSE IF state_key \in DOMAIN cs.cookies
        THEN LET cookie_name == ExternalName(cs.cookies[state_key], state_key)
             IN  [st EXCEPT !.cookies = (cookie_name :> CookieString(value)) @@ @,
                            !.writes = Append(@, [store |-> "cookie", name |-> cookie_name,
                                                  value |-> CookieString(value)])]
        ELSE st

\* One iteration of the inner loop of applyClientStorageDelta: st is
\* [cookies, local_storage, writes].
StoreOne(cs, delta, st, pair) ==
    LET state_key == StateKey(pair[1], pair[2])
        value == delta[pair[1]][pair[2]]
    IN  IF state_key \in DOMAIN cs.cookies
        THEN LET cookie_name == ExternalName(cs.cookies[state_key], state_key)
             IN  [st EXCEPT !.cookies = (cookie_name :> CookieString(value)) @@ @,
                            !.writes = Append(@, [store |-> "cookie", name |-> cookie_name,
                                                  value |-> CookieString(value)])]
        ELSE IF state_key \in DOMAIN cs.local_storage
        THEN LET name == ExternalName(cs.local_storage[state_key], state_key)
             IN  [st EXCEPT !.local_storage = (name :> StringOf(value)) @@ @,
                            !.writes = Append(@, [store |-> "local", name |-> name,
                                                  value |-> StringOf(value)])]
        ELSE st

RECURSIVE StoreLoop(_, _, _, _)
StoreLoop(cs, delta, st, pairs) ==
    IF pairs = << >> THEN st
    ELSE StoreLoop(cs, delta, StoreOne(cs, delta, st, Head(pairs)), Tail(pairs))

\* The check without its test for undefined: a main state without
\* is_hydrated counts as not hydrated.
NotHydratedLoose(delta) ==
    LET unqualified_states == {k \in DOMAIN delta : Dotless(k)}
    IN  /\ Cardinality(unqualified_states) = 1
        /\ LET main_state == delta[CHOOSE k \in unqualified_states : TRUE]
           IN  ("is_hydrated" \in DOMAIN main_state) => ~Truthy(main_state.is_hydrated)

\* main_state.is_hydrated !== undefined && !main_state.is_hydrated, for
\* the only unqualified substate of the delta
NotHydrated(delta) ==
    LET unqualified_states == {k \in DOMAIN delta : Dotless(k)}
    IN  /\ Cardinality(unqualified_states) = 1
        /\ LET main_state == delta[CHOOSE k \in unqualified_states : TRUE]
           IN  /\ "is_hydrated" \in DOMAIN main_state
               /\ ~Truthy(main_state.is_hydrated)

\* [cookies, local_storage, writes] after applyClientStorageDelta
applyClientStorageDelta(cs, delta, ck, ls) ==
    LET st0 == [cookies |-> ck, local_storage |-> ls, writes |-> << >>]
    IN  IF NotHydrated(delta) THEN st0
        ELSE StoreLoop(cs, delta, st0, DeltaPairs(delta))

\* hydrateClientStorage looking the stores up under the state key instead
\* of the configured name.
hydrateClientStorageByKey(cs, ck, ls) ==
    LET cookie_keys == {state_key \in DOMAIN cs.cookies : state_key \in DOMAIN ck}
        local_keys == {state_key \in DOMAIN cs.local_storage : state_key \in DOMAIN ls}
    IN  [state_key \in local_keys |-> ls[state_key]]
        @@ [state_key \in cookie_keys |-> ck[state_key]]

\* hydrateClientStorage(client_storage): client_storage_values after the
\* loop over the cookie configuration and the loop over the localStorage
\* configuration, whose assignments replace those of the first.  A
\* configuration without cookies (or local_storage) is one whose cookies
\* (or local_storage) has no key: both give the same result.
hydrateClientStorage(cs, ck, ls) ==
    LET cookie_keys ==
            {state_key \in DOMAIN cs.cookies :
                ExternalName(cs.cookies[state_key], state_key) \in DOMAIN ck}
        local_keys ==
            {state_key \in DOMAIN cs.local_storage :
                ExternalName(cs.local_storage[state_key], state_key) \in DOMAIN ls}
    IN  [state_key \in local_keys |->
            ls[ExternalName(cs.local_storage[state_key], state_key)]]
        @@ [state_key \in cookie_keys |->
               ck[ExternalName(cs.cookies[state_key], state_key)]]

\* ---------------------------------------------------------- the uploads
\* One uploadFiles call: the upload_id it was given, whether it issued a
\* request, whether the request is still pending, how the request ended,
\* what the call resolved to, the response text received so far, the text
\* the last progress tick saw, resp_idx, and the chunks handed to the
\* message handler without a throw.
NewUpload(u, isIssued) ==
    [upload_id |-> u, issued |-> isIssued,
     status |-> IF isIssued THEN "pending" ELSE "done",
     outcome |-> "none",
     ret |-> IF isIssued THEN "none" ELSE "false",
     text |-> << >>, seen |-> << >>, resp_idx |-> 0, delivered |-> << >>]

\* uploadFiles without its look at upload_controllers.
uploadFilesUnchecked(m, event) ==
    IF event.files = 0
    THEN [m EXCEPT !.uploads = (event.id :> NewUpload(event.upload_id, FALSE)) @@ @]
    ELSE LET m1 == getToken(m, TRUE)
         IN  [m1 EXCEPT !.upload_controllers[event.upload_id] = event.id,
                        !.uploads = (event.id :> NewUpload(event.upload_id, TRUE)) @@ @,
                        !.tokens = @ \cup {m1.token}]

\* uploadFiles up to its await of axios.post; the call is named by the id
\* of the event that made it.
uploadFiles(m, event) ==
    IF event.files = 0
    THEN [m EXCEPT !.uploads = (event.id :> NewUpload(event.upload_id, FALSE)) @@ @]
    ELSE IF m.upload_controllers[event.upload_id] # 0
    THEN [m EXCEPT !.uploads = (event.id :> NewUpload(event.upload_id, FALSE)) @@ @]
    ELSE LET m1 == getToken(m, TRUE)
         IN  [m1 EXCEPT !.upload_controllers[event.upload_id] = event.id,
                        !.uploads = (event.id :> NewUpload(event.upload_id, TRUE)) @@ @,
                        !.tokens = @ \cup {m1.token}]

\* What applyEvent and applyRestEvent give back: the machine, whether the
\* event was sent, and whether the handling is suspended at an await that a
\* later task completes.
Outcome(m, isSent, isSuspended) ==
    [m |-> m, eventSent |-> isSent, suspended |-> isSuspended, threw |-> FALSE]

\* applyEvent ending with an exception: its promise is rejected.
Thrown(m) == [m |-> m, eventSent |-> FALSE, suspended |-> FALSE, threw |-> TRUE]

\* applyRestEvent reporting the upload it started as an event sent.
applyRestEventHolding(m, event) ==
    IF event.handler = "uploadFiles"
    THEN Outcome(uploadFiles(m, event), TRUE, FALSE)
    ELSE Outcome(m, FALSE, FALSE)

applyRestEvent(m, event) ==
    IF event.handler = "uploadFiles"
    THEN Outcome(uploadFiles(m, event), FALSE, FALSE)
    ELSE Outcome(m, FALSE, FALSE)

\* event_queue.unshift(...events)
pushFront(m, events) ==
    [m EXCEPT !.event_queue =
                  [i \in 1..Len(events) |-> [events[i] EXCEPT !.id = m.appended + i]] \o @,
              !.appended = @ + Len(events)]

\* event_queue.push(...events)
push(m, events) ==
    [m EXCEPT !.event_queue =
                  @ \o [i \in 1..Len(events) |-> [events[i] EXCEPT !.id = m.appended + i]],
              !.appended = @ + Len(events)]

\* The store without the entry of name.
Without(store, name) == [n \in DOMAIN store \ {name} |-> store[n]]

\* queueEvents(initialEvents(), socket) inside applyEvent: socket is the
\* socket object there, whose .current is undefined, so the processEvent it
\* calls returns at once and only the push remains.
\* The initial events put back without the queue: they are dropped.
requeueNothing(m, event) ==
    [m EXCEPT !.requeued = (event.id :> [first |-> m.appended + 1,
                                         behind |-> Len(m.event_queue)]) @@ @]

\* requeued notes, for the event handled, the id its first initial event
\* gets and how many events were queued behind it.
requeueInitialEvents(m, event) ==
    push([m EXCEPT !.requeued = (event.id :> [first |-> m.appended + 1,
                                              behind |-> Len(m.event_queue)]) @@ @],
         InitialEvents)

applyEvent(m, event) ==
    IF event.name = "_remove_cookie"
    THEN Outcome(requeueInitialEvents(
                     [m EXCEPT !.cookies = Without(@, event.key)], event), FALSE, FALSE)
    ELSE IF event.name = "_clear_local_storage"
    THEN Outcome(requeueInitialEvents(
                     [m EXCEPT !.local_storage = << >>], event), FALSE, FALSE)
    ELSE IF event.name = "_remove_local_storage"
    THEN Outcome(requeueInitialEvents(
                     [m EXCEPT !.local_storage = Without(@, event.key)], event), FALSE, FALSE)
    ELSE IF event.name \in {"_set_focus", "_set_value"}
    THEN IF event.ref = "mounted" THEN Outcome(m, FALSE, FALSE) ELSE Thrown(m)
    ELSE IF event.name = "_call_script"
    THEN IF event.throws THEN Outcome(m, FALSE, FALSE)
         ELSE IF event.promise
         THEN Outcome([m EXCEPT !.suspended = @ \cup {event.id}], FALSE, TRUE)
         ELSE Outcome(m, FALSE, FALSE)
    ELSE IF event.name \in SpecialNames
    THEN Outcome(m, FALSE, FALSE)
    ELSE LET m1 == getToken(m, TRUE)
             message == [event EXCEPT !.token = m1.token,
                                      !.router_data = IF @ = "" THEN Router ELSE @]
         IN  Outcome([m1 EXCEPT !.sent = Append(@, event.id),
                                !.inflight = Append(@, [id |-> event.id, lost |-> FALSE]),
                                !.tokens = @ \cup {message.token},
                                !.emitted = [ran |-> TRUE, event |-> event,
                                             message |-> message]],
                     TRUE, FALSE)

\* processEvent without its look at the socket.
processEventWithoutSocket(m, sock) ==
    IF Len(m.event_queue) = 0 \/ m.event_processing THEN m
    ELSE LET event == Head(m.event_queue)
             m1 == [m EXCEPT !.event_processing = TRUE,
                             !.event_queue = Tail(@),
                             !.handled = Append(@, event.id),
                             !.owner = event]
             r == IF event.handler # ""
                  THEN applyRestEvent(m1, event)
                  ELSE applyEvent(m1, event)
         IN  IF r.suspended \/ r.eventSent \/ r.threw THEN r.m
             ELSE [r.m EXCEPT !.continuations = @ + 1]

\* processEvent(socket) up to its await: sock says whether its argument is
\* set.  When applyEvent throws, the await throws and the rest of
\* processEvent does not run.
processEvent(m, sock) ==
    IF ~sock THEN m
    ELSE IF Len(m.event_queue) = 0 \/ m.event_processing THEN m
    ELSE LET event == Head(m.event_queue)
             m1 == [m EXCEPT !.event_processing = TRUE,
                             !.event_queue = Tail(@),
                             !.handled = Append(@, event.id),
                             !.owner = event]
             r == IF event.handler # ""
                  THEN applyRestEvent(m1, event)
                  ELSE applyEvent(m1, event)
         IN  IF r.suspended \/ r.eventSent \/ r.threw THEN r.m
             ELSE [r.m EXCEPT !.continuations = @ + 1]

\* processEvent after its await, when no event was sent: the gate is
\* opened and processEvent called again.
processEventResume(m) ==
    processEvent([m EXCEPT !.event_processing = FALSE], TRUE)

\* The microtasks at the end of a task.
RECURSIVE RunMicrotasks(_)
RunMicrotasks(m) ==
    IF m.continuations = 0 THEN m
    ELSE RunMicrotasks(processEventResume([m EXCEPT !.continuations = @ - 1]))

\* queueEvents(events, socket); sock says whether socket.current is set.
queueEvents(m, events, sock) == processEvent(push(m, events), sock)

\* ---------------------------------------------------- the message handler
\* An Update: its delta, its events (hasEvents: the field is present), and
\* final.
Update(delta, hasEvents, events, final) ==
    [delta |-> delta, hasEvents |-> hasEvents, events |-> events, final |-> final]

\* for (const substate in update.delta) dispatch[substate](...): the
\* dispatchers are those of the known substates, and calling a missing one
\* throws.
RECURSIVE DispatchFrom(_, _, _)
DispatchFrom(st, delta, i) ==
    IF i > Len(SubstateOrder) THEN [state |-> st, threw |-> FALSE]
    ELSE LET substate == SubstateOrder[i]
         IN  IF substate \notin DOMAIN delta THEN DispatchFrom(st, delta, i + 1)
             ELSE IF substate \notin DOMAIN st THEN [state |-> st, threw |-> TRUE]
             ELSE DispatchFrom([st EXCEPT ![substate] = applyDelta(@, delta[substate])],
                               delta, i + 1)

\* The socket's "event" handler, on a message that parses to update.
MessageHandler(m, update, sock) ==
    LET d == DispatchFrom(m.state, update.delta, 1)
        seen == [prev |-> m.state, delta |-> update.delta, ran |-> TRUE]
    IN  IF d.threw
        THEN [m |-> [m EXCEPT !.state = d.state,
                              !.last = seen @@ [writes |-> << >>, threw |-> TRUE]],
              threw |-> TRUE]
        ELSE LET st == applyClientStorageDelta(client_storage, update.delta,
                                               m.cookies, m.local_storage)
                 m1 == [m EXCEPT !.state = d.state,
                                 !.cookies = st.cookies,
                                 !.local_storage = st.local_storage,
                                 !.last = seen @@ [writes |-> st.writes, threw |-> FALSE],
                                 !.event_processing = ~update.final]
             IN  [m |-> IF update.hasEvents
                        THEN queueEvents(m1, update.events, sock)
                        ELSE m1,
                  threw |-> FALSE]

\* ------------------------------------------------- the response stream
\* The response text is a sequence of characters.  The server writes each
\* Update as the line "{", tag, "}" followed by Newline: the tag stands for
\* the JSON between the braces.
Newline == "\n"

\* The Updates an upload's handler streams, by tag: no events field or an
\* empty events array, final or not, a delta for a known substate and for
\* a substate the page does not know.
StreamUpdate(tag) ==
    CASE tag = "n-" -> Update(<< >>, FALSE, << >>, FALSE)
      [] tag = "f-" -> Update(<< >>, FALSE, << >>, TRUE)
      [] tag = "n0" -> Update(<< >>, TRUE, << >>, FALSE)
      [] tag = "f0" -> Update(<< >>, TRUE, << >>, TRUE)
      [] tag = "fx" -> Update("state" :> [x |-> S(1)], TRUE, << >>, TRUE)
      [] tag = "fu" -> Update("state.new" :> [x |-> S(1)], TRUE, << >>, TRUE)

StreamTags == {"n-", "f-", "n0", "f0", "fx", "fu"}

\* String.prototype.trim, for the one whitespace character of the model.
RECURSIVE TrimEnd(_)
TrimEnd(text) ==
    IF text # << >> /\ text[Len(text)] = Newline
    THEN TrimEnd(SubSeq(text, 1, Len(text) - 1))
    ELSE text

RECURSIVE TrimStart(_)
TrimStart(text) ==
    IF text # << >> /\ Head(text) = Newline THEN TrimStart(Tail(text)) ELSE text

Trim(text) == TrimStart(TrimEnd(text))

\* text.split("\n"): the pieces between the newlines, one more than there
\* are newlines.
RECURSIVE SplitFrom(_, _)
SplitFrom(text, piece) ==
    IF text = << >> THEN << piece >>
    ELSE IF Head(text) = Newline THEN << piece >> \o SplitFrom(Tail(text), << >>)
    ELSE SplitFrom(Tail(text), Append(piece, Head(text)))

Split(text) == SplitFrom(text, << >>)

\* JSON5.parse(chunk) succeeds on a whole line only.
Parses(chunk) ==
    /\ Len(chunk) = 3
    /\ chunk[1] = "{"
    /\ chunk[2] \in StreamTags
    /\ chunk[3] = "}"

\* chunks.slice(resp_idx).map(...): the callback's return in the catch
\* ends that one call, and map goes on with the next chunk.
RECURSIVE eventHandlerFrom(_, _, _, _, _)
eventHandlerFrom(m, id, chunks, i, sock) ==
    IF i > Len(chunks) THEN m
    ELSE LET chunk == chunks[i]
         IN  IF ~Parses(chunk) THEN eventHandlerFrom(m, id, chunks, i + 1, sock)
             ELSE LET r == MessageHandler(m, StreamUpdate(chunk[2]), sock)
                  IN  IF r.threw THEN eventHandlerFrom(r.m, id, chunks, i + 1, sock)
                      ELSE eventHandlerFrom(
                               [r.m EXCEPT !.uploads[id].resp_idx = @ + 1,
                                           !.uploads[id].delivered = Append(@, chunk)],
                               id, chunks, i + 1, sock)

\* eventHandler mapping over all the chunks, without slice(resp_idx).
eventHandlerUnsliced(m, id, sock) ==
    LET chunks == Split(Trim(m.uploads[id].text))
    IN  eventHandlerFrom([m EXCEPT !.uploads[id].seen = m.uploads[id].text],
                         id, chunks, 1, sock)

\* eventHandler(progressEvent) of the upload call id, on the response text
\* received so far.
eventHandler(m, id, sock) ==
    LET chunks == Split(Trim(m.uploads[id].text))
    IN  eventHandlerFrom([m EXCEPT !.uploads[id].seen = m.uploads[id].text],
                         id, chunks, m.uploads[id].resp_idx + 1, sock)

\* uploadFiles with the delete at the end of its try instead of in a
\* finally: a request that fails leaves its controller registered.
uploadEndLeaking(m, id, outcome) ==
    [m EXCEPT !.uploads[id] =
                  [NewUpload(@.upload_id, TRUE) EXCEPT
                      !.status = "done",
                      !.outcome = outcome,
                      !.ret = IF outcome = "success" THEN "response" ELSE "false"],
              !.upload_controllers[m.uploads[id].upload_id] =
                  IF outcome = "success" THEN 0 ELSE @]

\* The end of the request of upload call id: the try of uploadFiles
\* returns the response or its catch returns false, and the finally
\* deletes the controller registered under the upload_id.  The response
\* and the closure of eventHandler are gone with the request.
uploadEnd(m, id, outcome) ==
    [m EXCEPT !.uploads[id] =
                  [NewUpload(@.upload_id, TRUE) EXCEPT
                      !.status = "done",
                      !.outcome = outcome,
                      !.ret = IF outcome = "success" THEN "response" ELSE "false"],
              !.upload_controllers[m.uploads[id].upload_id] = 0]

\* -------------------------------------------------------------- actions
\* The ids a queue still needs: one per event it gets, and the initial
\* events every storage special event in it will append.
Needs(events) ==
    Len(events)
    + Len(InitialEvents) * Cardinality({i \in 1..Len(events) : events[i].name \in StorageSpecials})

CanAppendUpTo(events, n) ==
    appended + Needs(event_queue) - Len(event_queue) + Needs(events) <= n

CanAppend(events) == CanAppendUpTo(events, MaxEvents)

\* The client storage configurations of a page: a cookie under its state
\* key, a cookie and a local storage entry under configured names, and a
\* key configured in both stores.
Configs ==
    { [cookies |-> << >>, local_storage |-> << >>],
      [cookies |-> ("state.x" :> [name |-> ""]),
       local_storage |-> ("state.sub.y" :> [name |-> "", sync |-> FALSE])],
      [cookies |-> ("state.x" :> [name |-> "cx"]) @@ ("state.sub.x" :> [name |-> ""]),
       local_storage |-> ("state.x" :> [name |-> "lx", sync |-> TRUE])
                         @@ ("state.y" :> [name |-> "ly", sync |-> FALSE])] }

\* The stores of a first visit.
NoStores == { [cookies |-> << >>, local_storage |-> << >>] }

InitFrom(configs, sessions, stores) ==
    /\ event_queue = << >>
    /\ event_processing = FALSE
    /\ upload_controllers = [u \in UploadIds |-> 0]
    /\ socket = FALSE
    /\ connectErrors = << >>
    /\ closureErrors = << >>
    /\ sentHydrate = FALSE
    /\ state = InitialState
    /\ \E st \in stores : cookies = st.cookies /\ local_storage = st.local_storage
    /\ client_storage \in configs
    /\ connected = FALSE
    /\ inflight = << >>
    /\ uploads = << >>
    /\ suspended = {}
    /\ appended = 0
    /\ handled = << >>
    /\ requeued = << >>
    /\ sent = << >>
    /\ errorsArrived = << >>
    /\ errorCount = 0
    /\ last = [prev |-> InitialState, delta |-> << >>, ran |-> FALSE,
               writes |-> << >>, threw |-> FALSE]
    /\ token = 0
    /\ session_storage \in sessions
    /\ generated = 0
    /\ tokens = {}
    /\ emitted = [ran |-> FALSE, event |-> Event("", ""), message |-> Event("", "")]
    /\ owner = Event("", "")
    /\ hydration = [ran |-> FALSE, cookies |-> << >>, local_storage |-> << >>,
                    values |-> << >>]

\* A page loaded in a tab whose sessionStorage holds no token yet.
InitWith(configs) == InitFrom(configs, {0}, NoStores)

UnchangedSocket == UNCHANGED << socket, closureErrors >>
UnchangedConnection == UNCHANGED << connectErrors, connected, errorsArrived, errorCount >>
UnchangedPage == UNCHANGED << sentHydrate, client_storage, hydration >>

\* The hydrate effect of useEventLoop: addEvents(initial_events()), once.
Hydrate ==
    /\ ~sentHydrate
    /\ CanAppend(InitialEvents)
    /\ Commit(RunMicrotasks(queueEvents(
           Machine,
           [i \in 1..Len(InitialEvents) |-> [InitialEvents[i] EXCEPT !.router_data = Router]],
           socket)))
    /\ sentHydrate' = TRUE
    /\ UNCHANGED << client_storage, hydration >>
    /\ UnchangedSocket /\ UnchangedConnection

\* The main effect of useEventLoop, run after a render: connect() when
\* there is no socket yet, then the loop over processEvent.
EventLoop ==
    /\ sentHydrate
    /\ socket' = TRUE
    /\ closureErrors' = IF socket THEN closureErrors ELSE connectErrors
    /\ Commit(RunMicrotasks(processEvent(Machine, TRUE)))
    /\ UnchangedPage /\ UnchangedConnection

\* addEvents(events) from the page, among the first n events appended.
AddEventsUpTo(pool, n) ==
    \E e \in pool :
        /\ CanAppendUpTo(<< e >>, n)
        /\ Commit(RunMicrotasks(queueEvents(Machine, << e >>, socket)))
        /\ UnchangedPage /\ UnchangedSocket /\ UnchangedConnection

\* addEvents(events) from the page.
AddEvents(pool) == AddEventsUpTo(pool, MaxEvents)

\* The first event in flight whose reply can still arrive.
Replying(fl) ==
    IF \E i \in 1..Len(fl) : ~fl[i].lost
    THEN CHOOSE i \in 1..Len(fl) : ~fl[i].lost /\ \A j \in 1..(i - 1) : fl[j].lost
    ELSE 0

Remove(seq, i) == SubSeq(seq, 1, i - 1) \o SubSeq(seq, i + 1, Len(seq))

\* The server's next Update for the event it is processing arrives on the
\* socket; its final Update ends the wait of that event.
SocketUpdate(pool) ==
    /\ socket /\ connected
    /\ Replying(inflight) # 0
    /\ \E u \in pool :
        /\ u.hasEvents => CanAppend(u.events)
        /\ LET m == IF u.final
                    THEN [Machine EXCEPT !.inflight = Remove(@, Replying(inflight))]
                    ELSE Machine
           IN  Commit(RunMicrotasks(MessageHandler(m, u, TRUE).m))
    /\ UnchangedPage /\ UnchangedSocket /\ UnchangedConnection

\* A connect callback that also opens the gate.
SocketConnectResetting ==
    /\ socket /\ ~connected
    /\ connected' = TRUE
    /\ connectErrors' = << >>
    /\ errorsArrived' = << >>
    /\ UNCHANGED errorCount
    /\ Commit([Machine EXCEPT !.event_processing = FALSE])
    /\ UnchangedPage /\ UnchangedSocket

\* socket.current.on("connect")
SocketConnect ==
    /\ socket /\ ~connected
    /\ connected' = TRUE
    /\ connectErrors' = << >>
    /\ errorsArrived' = << >>
    /\ UNCHANGED errorCount
    /\ Commit(Machine)
    /\ UnchangedPage /\ UnchangedSocket

\* socket.current.on("connect_error"), with the error numbered error.
SocketConnectError ==
    /\ socket /\ ~connected
    /\ errorCount < MaxErrors
    /\ errorCount' = errorCount + 1
    /\ connectErrors' = Append(closureErrors, errorCount + 1)
    /\ errorsArrived' = Append(errorsArrived, errorCount + 1)
    /\ UNCHANGED connected
    /\ Commit(Machine)
    /\ UnchangedPage /\ UnchangedSocket

\* The transport drops: the replies to the events in flight are lost.
SocketDisconnect ==
    /\ socket /\ connected
    /\ connected' = FALSE
    /\ Commit([Machine EXCEPT !.inflight = [i \in 1..Len(@) |-> [@[i] EXCEPT !.lost = TRUE]]])
    /\ UNCHANGED << connectErrors, errorsArrived, errorCount >>
    /\ UnchangedPage /\ UnchangedSocket

\* The promise a _call_script event awaits settles: applyEvent returns
\* false and processEvent goes on after its await.
ScriptResume ==
    \E id \in suspended :
        /\ Commit(RunMicrotasks(processEventResume([Machine EXCEPT !.suspended = @ \ {id}])))
        /\ UnchangedPage /\ UnchangedSocket /\ UnchangedConnection

\* The page calls hydrateClientStorage(client_storage) for the payload of
\* its hydrate event.
HydrateClientStorage ==
    /\ hydration' = [ran |-> TRUE, cookies |-> cookies, local_storage |-> local_storage,
                     values |-> hydrateClientStorage(client_storage, cookies, local_storage)]
    /\ Commit(Machine)
    /\ UNCHANGED << sentHydrate, client_storage >>
    /\ UnchangedSocket /\ UnchangedConnection

\* A script of the page, or the user, clears the sessionStorage of the tab.
ClearSession ==
    /\ session_storage # 0
    /\ Commit([Machine EXCEPT !.session_storage = 0])
    /\ UnchangedPage /\ UnchangedSocket /\ UnchangedConnection

Pending == {id \in DOMAIN uploads : uploads[id].status = "pending"}

AtLineStart(text) == IF text = << >> THEN TRUE ELSE text[Len(text)] = Newline

NewlineCount(text) == Cardinality({i \in 1..Len(text) : text[i] = Newline})

\* The server writes the next character of the response of a pending
\* upload.
UploadStreamChar(tags, maxLines) ==
    \E id \in Pending :
        LET text == uploads[id].text
        IN  /\ \/ /\ AtLineStart(text)
                  /\ NewlineCount(text) < maxLines
                  /\ Commit([Machine EXCEPT !.uploads[id].text = Append(@, "{")])
               \/ /\ ~AtLineStart(text) /\ text[Len(text)] = "{"
                  /\ \E tag \in tags :
                        Commit([Machine EXCEPT !.uploads[id].text = Append(@, tag)])
               \/ /\ ~AtLineStart(text) /\ text[Len(text)] \in StreamTags
                  /\ Commit([Machine EXCEPT !.uploads[id].text = Append(@, "}")])
               \/ /\ ~AtLineStart(text) /\ text[Len(text)] = "}"
                  /\ Commit([Machine EXCEPT !.uploads[id].text = Append(@, Newline)])
            /\ UnchangedPage /\ UnchangedSocket /\ UnchangedConnection

\* The server writes a whole line of the response of a pending upload.
UploadStreamLine(tags, maxLines) ==
    \E id \in Pending, tag \in tags :
        /\ AtLineStart(uploads[id].text)
        /\ NewlineCount(uploads[id].text) < maxLines
        /\ Commit([Machine EXCEPT !.uploads[id].text = @ \o << "{", tag, "}", Newline >>])
        /\ UnchangedPage /\ UnchangedSocket /\ UnchangedConnection

\* A progress event of the request of a pending upload, after more of the
\* response has arrived.
UploadProgress ==
    \E id \in Pending :
        /\ uploads[id].text # uploads[id].seen
        /\ Commit(RunMicrotasks(eventHandler(Machine, id, TRUE)))
        /\ UnchangedPage /\ UnchangedSocket /\ UnchangedConnection

Outcomes == {"success", "error_response", "no_response", "setup_error"}

\* The request of a pending upload ends: with the whole response seen by
\* a progress event when it succeeds, before any response when it could
\* not be set up, and at any point of the response when the server answers
\* with an error or the connection is lost.
UploadEnd(outcomes) ==
    \E id \in Pending, outcome \in outcomes :
        /\ outcome = "success" =>
               AtLineStart(uploads[id].text) /\ uploads[id].seen = uploads[id].text
        /\ outcome = "setup_error" => uploads[id].text = << >>
        /\ Commit(uploadEnd(Machine, id, outcome))
        /\ UnchangedPage /\ UnchangedSocket /\ UnchangedConnection

\* --------------------------------------------------------- the event loop
LoopPool ==
    { Event("set_count", ""), Event("_console", ""), ScriptEvent(TRUE),
      UploadEvent("u1", 1), KeyEvent("_remove_cookie", "cx"),
      KeyEvent("_remove_local_storage", "lx"), Event("_clear_local_storage", "") }

LoopUpdates ==
    { Update(<< >>, FALSE, << >>, TRUE),
      Update(<< >>, FALSE, << >>, FALSE),
      Update(<< >>, TRUE, << >>, TRUE),
      Update(<< >>, TRUE, << Event("follow_up", "") >>, TRUE) }

LoopTags == {"n-", "f0"}

Init == InitWith({[cookies |-> << >>, local_storage |-> << >>]})

Next ==
    \/ Hydrate
    \/ EventLoop
    \/ AddEvents(LoopPool)
    \/ SocketConnect
    \/ SocketUpdate(LoopUpdates)
    \/ ScriptResume
    \/ UploadStreamLine(LoopTags, 1)
    \/ UploadProgress
    \/ UploadEnd({"success", "no_response"})

Spec == Init /\ [][Next]_vars

\* ------------------------------------------------------------ uploads
UploadPool ==
    { UploadEvent("u1", 1), UploadEvent("u2", 1), UploadEvent("u2", 0) }

UploadUpdates == { Update(<< >>, FALSE, << >>, TRUE) }

NextUpload ==
    \/ Hydrate
    \/ EventLoop
    \/ AddEvents(UploadPool)
    \/ SocketConnect
    \/ SocketUpdate(UploadUpdates)
    \/ UploadEnd(Outcomes)

SpecUpload == Init /\ [][NextUpload]_vars

\* -------------------------------------------------------- the connection
ConnPool == { Event("set_count", ""), Event("_console", "") }

NextConn ==
    \/ Hydrate
    \/ EventLoop
    \/ AddEvents(ConnPool)
    \/ SocketConnect
    \/ SocketConnectError
    \/ SocketDisconnect
    \/ SocketUpdate(UploadUpdates)

SpecConn == Init /\ [][NextConn]_vars

\* ------------------------------------------------------ deltas and storage
\* Deltas of the server: a field overwritten, a field added, a nested
\* value replaced, is_hydrated false, true and absent, one, two and no
\* unqualified substate.
DeltaPool ==
    { "state" :> [x |-> S(1)],
      "state" :> [y |-> S(2)],
      "state" :> [is_hydrated |-> S(0), x |-> S(2)],
      ("state" :> [is_hydrated |-> S(1), x |-> S(1)]) @@ ("state.sub" :> [x |-> [q |-> 2]]),
      "state.sub" :> [x |-> [p |-> 2], y |-> S(1)],
      ("state" :> [is_hydrated |-> S(0), x |-> S(1)]) @@ ("other" :> [x |-> S(1)]),
      ("state" :> [is_hydrated |-> S(0), x |-> S(2), y |-> S(1)]) @@ ("state.sub" :> [y |-> S(2)]),
      ("other" :> [is_hydrated |-> S(0)]) @@ ("state.sub" :> [x |-> S(1)]) }

DeltaUpdates == { Update(d, FALSE, << >>, f) : d \in DeltaPool, f \in BOOLEAN }

InitDelta == InitWith(Configs)

NextDelta ==
    \/ Hydrate
    \/ EventLoop
    \/ SocketConnect
    \/ SocketUpdate(DeltaUpdates)

SpecDelta == InitDelta /\ [][NextDelta]_vars

\* ------------------------------------------------------ the response stream
StreamPool == { UploadEvent("u1", 1) }

NextStream ==
    \/ Hydrate
    \/ EventLoop
    \/ AddEvents(StreamPool)
    \/ SocketConnect
    \/ SocketUpdate(UploadUpdates)
    \/ UploadStreamChar({"n-", "f0"}, MaxLines)
    \/ UploadProgress
    \/ UploadEnd({"success"})

SpecStream == Init /\ [][NextStream]_vars

\* ------------------------------------------------- lines that throw
\* The lines of a response: Updates that are applied, Updates whose delta
\* names a substate without a dispatcher, and a line ("!!") that is not
\* JSON.
ThrowTags == {"f0", "fx", "fu", "!!"}

NextThrow ==
    \/ Hydrate
    \/ EventLoop
    \/ AddEvents(StreamPool)
    \/ SocketConnect
    \/ SocketUpdate(UploadUpdates)
    \/ UploadStreamLine(ThrowTags, MaxLines + 1)
    \/ UploadProgress
    \/ UploadEnd({"success"})

SpecThrow == Init /\ [][NextThrow]_vars

\* ------------------------------------------------------------ the token
\* Events of the page: without token and route, with a token of their own,
\* with a route of their own, and an upload.
TokenPool ==
    { Event("set_count", ""),
      [Event("set_count", "") EXCEPT !.token = -2],
      [Event("set_count", "") EXCEPT !.router_data = "/old"],
      UploadEvent("u1", 1) }

\* The tab's sessionStorage holds no token, or the token (-1) that an
\* earlier load of the page in this tab left.
InitToken == InitFrom({[cookies |-> << >>, local_storage |-> << >>]}, {0, -1}, NoStores)

NextToken ==
    \/ Hydrate
    \/ EventLoop
    \/ AddEvents(TokenPool)
    \/ SocketConnect
    \/ SocketUpdate(UploadUpdates)
    \/ UploadEnd({"success"})
    \/ ClearSession

SpecToken == InitToken /\ [][NextToken]_vars

\* ------------------------------------------------------------ hydration
\* The stores at the load of the page: those of a first visit, and those
\* an earlier visit left.
HydrateStores ==
    NoStores \cup
    { [cookies |-> ("cx" :> CookieString(S(2))) @@ ("state.x" :> CookieString(S(1))),
       local_storage |-> ("lx" :> StringOf(S(2))) @@ ("state.sub.y" :> StringOf(S(1)))] }

HydratePool == { KeyEvent("_remove_cookie", "cx"), Event("_clear_local_storage", "") }

HydrateUpdates ==
    { Update("state" :> [x |-> S(1)], TRUE, << >>, TRUE),
      Update("state" :> [y |-> S(2)], TRUE, << >>, TRUE) }

InitHydrate == InitFrom(Configs, {0}, HydrateStores)

NextHydrate ==
    \/ Hydrate
    \/ EventLoop
    \/ AddEvents(HydratePool)
    \/ SocketConnect
    \/ SocketUpdate(HydrateUpdates)
    \/ HydrateClientStorage

SpecHydrate == InitHydrate /\ [][NextHydrate]_vars

\* The final Update of the server for an event, without follow-up events.
SpecialUpdates == { Update(<< >>, TRUE, << >>, TRUE) }

\* ------------------------------------------------ handler-tagged events
\* An upload, an upload without files, an event tagged with a handler
\* that applyRestEvent does not know, and an event for the socket.
RestPool ==
    { UploadEvent("u1", 1), UploadEvent("u1", 0), Event("upload", "otherHandler"),
      Event("set_count", "") }

NextRest ==
    \/ Hydrate
    \/ EventLoop
    \/ AddEvents(RestPool)
    \/ SocketConnect
    \/ SocketUpdate(SpecialUpdates)
    \/ UploadStreamLine({"n0", "f0"}, 1)
    \/ UploadProgress
    \/ UploadEnd({"success", "no_response"})

SpecRest == Init /\ [][NextRest]_vars

\* ------------------------------------------------------- special events
RefEvent(name, ref) == [Event(name, "") EXCEPT !.ref = ref]

\* Every special event: those with a side effect only, the three that
\* change a store, _set_focus and _set_value on a ref whose element is
\* mounted and on one that is not, and _call_script on code that returns a
\* value, returns a promise, and throws.
SpecialPool ==
    { Event(n, "") : n \in {"_redirect", "_console", "_set_clipboard", "_download", "_alert"} }
    \cup { KeyEvent("_remove_cookie", "cx"), KeyEvent("_remove_local_storage", "lx"),
           Event("_clear_local_storage", "") }
    \cup { RefEvent("_set_focus", "mounted"), RefEvent("_set_value", "mounted"),
           RefEvent("_set_focus", "unmounted") }
    \cup { ScriptEvent(FALSE), ScriptEvent(TRUE),
           [ScriptEvent(FALSE) EXCEPT !.throws = TRUE] }

NextSpecial ==
    \/ Hydrate
    \/ EventLoop
    \/ AddEventsUpTo(SpecialPool, MaxSpecial)
    \/ SocketConnect
    \/ SocketUpdate(SpecialUpdates)
    \/ ScriptResume

SpecSpecial == Init /\ [][NextSpecial]_vars

\* ------------------------------------------------------ unknown substates
\* Updates of the server, some of which name a substate the page does not
\* know.
UnknownUpdates ==
    { Update(<< >>, TRUE, << >>, TRUE),
      Update("state" :> [x |-> S(1)], TRUE, << >>, FALSE),
      Update("state.new" :> [x |-> S(1)], TRUE, << >>, TRUE),
      Update(("state" :> [x |-> S(2)]) @@ ("state.new" :> [x |-> S(1)]), TRUE,
             << Event("follow_up", "") >>, TRUE) }

NextUnknown ==
    \/ Hydrate
    \/ EventLoop
    \/ AddEvents(ConnPool)
    \/ SocketConnect
    \/ SocketUpdate(UnknownUpdates)

SpecUnknown == InitDelta /\ [][NextUnknown]_vars

\* ------------------------------------------------------ the queue's claims
Range(seq) == {seq[i] : i \in 1..Len(seq)}

QueueIds == [i \in 1..Len(event_queue) |-> event_queue[i].id]

\* The order of processing: the events dequeued, then the events queued.
DispatchOrder == handled \o QueueIds

PositionOf(id) == CHOOSE i \in 1..Len(DispatchOrder) : DispatchOrder[i] = id

\* C1: at most one event given to socket.emit is awaiting its final Update
\* at any time.
C1_SingleFlight == Len(inflight) <= 1

\* C2: events are dequeued in the order in which they were appended: the
\* k-th event dequeued is the k-th event appended, and the queue holds the
\* remaining ones in the order of their appends.
C2_Fifo == DispatchOrder = [i \in 1..appended |-> i]

\* A follow-up event of an Update and events of the page wait in the queue
\* behind events already dequeued.
C2_Witness ==
    /\ Len(handled) >= 3
    /\ Len(event_queue) >= 2
    /\ \E i \in 1..Len(event_queue) : event_queue[i].name = "follow_up"
    /\ \E i \in 1..Len(event_queue) : event_queue[i].name = "set_count"

\* An Update was received in the step: the final Update of an event in
\* flight, or a line of an upload's response.
UpdateReceived ==
    \/ \E i \in 1..Len(inflight) : inflight[i].id \notin {inflight'[j].id : j \in 1..Len(inflight')}
    \/ \E id \in Pending : id \in DOMAIN uploads' /\ uploads'[id].resp_idx > uploads[id].resp_idx

\* C3: the gate goes from Idle to Processing only in a step that dequeues
\* an event, and from Processing to Idle only in a step in which a local
\* event or a handler-tagged event is done with, or an Update is received.
C3_GateTransitions ==
    [][ /\ (~event_processing /\ event_processing') => Len(handled') > Len(handled)
        /\ (event_processing /\ ~event_processing') =>
               \/ Len(handled') > Len(handled)
               \/ suspended' # suspended
               \/ UpdateReceived ]_vars

\* The queue after the step is the queue before it, with events appended
\* or not, and nothing was dequeued or sent in the step.
NothingDequeued ==
    /\ event_processing' = event_processing
    /\ handled' = handled
    /\ sent' = sent
    /\ Len(event_queue') >= Len(event_queue)
    /\ SubSeq(event_queue', 1, Len(event_queue)) = event_queue

\* C17: a step without a socket, a call of addEvents or a run of the event
\* loop while the gate is Processing, and a run of the event loop on an
\* empty queue dequeue and send nothing and leave the gate as it is; the
\* events enqueued without a socket are all kept, and the step that brings
\* the socket dequeues the first of them.
C17_NoOpDrain ==
    [][ /\ (~socket /\ ~socket') => NothingDequeued
        /\ (event_processing /\ (Hydrate \/ AddEvents(LoopPool) \/ EventLoop)) => NothingDequeued
        /\ (event_queue = << >> /\ EventLoop) =>
               (NothingDequeued /\ event_queue' = << >>)
        /\ (~socket /\ socket' /\ ~event_processing /\ event_queue # << >>) =>
               /\ Len(handled') > Len(handled)
               /\ handled'[Len(handled) + 1] = Head(event_queue).id ]_vars

\* The initial events and events of the page wait in the queue of a page
\* that has no socket yet.
C17_Witness ==
    /\ ~socket
    /\ sentHydrate
    /\ Len(event_queue) >= 4
    /\ handled = << >>

\* The storage special events of the queue that the step dequeued.
StorageDequeued ==
    {j \in 1..Len(event_queue) :
        /\ event_queue[j].id \in Range(handled')
        /\ event_queue[j].name \in StorageSpecials}

\* C18: no special event is given to socket.emit; the gate is Processing
\* only for an event that was sent or a _call_script still awaiting its
\* promise, so every other special event, a _call_script whose code throws
\* included, leaves it Idle; with a socket the drain goes on until the
\* queue is empty or such an event holds the gate; and a step that drains
\* the queue appends the initial events once per storage special event it
\* dequeued and nothing else.
C18_SpecialsLocal ==
    /\ [](/\ emitted.ran => emitted.event.name \notin SpecialNames
          /\ event_processing =>
                 \/ owner.name \notin SpecialNames /\ owner.id \in Range(sent)
                 \/ owner.name = "_call_script" /\ owner.id \in suspended
          /\ (socket /\ ~event_processing) => event_queue = << >>)
    /\ [][ (EventLoop \/ ScriptResume \/ SocketUpdate(SpecialUpdates)) =>
               appended' - appended = Len(InitialEvents) * Cardinality(StorageDequeued) ]_vars

\* C9 as stated: nothing is sent for a storage special event, and the
\* initial events it re-enqueues are the next events processed after it.
C9_InitialEventsNext ==
    \A s \in DOMAIN requeued :
        /\ s \notin Range(sent)
        /\ \A j \in 1..Len(InitialEvents) :
               /\ PositionOf(s) + j <= Len(DispatchOrder)
               /\ DispatchOrder[PositionOf(s) + j] = requeued[s].first + j - 1

\* C9, amended: nothing is sent for a storage special event, and the
\* initial events it re-enqueues are processed, in their order, right
\* after the events that were queued behind it when it was dequeued.
C9_InitialEventsAtTail ==
    \A s \in DOMAIN requeued :
        /\ s \notin Range(sent)
        /\ \A j \in 1..Len(InitialEvents) :
               LET p == PositionOf(s) + requeued[s].behind + j
               IN  /\ p <= Len(DispatchOrder)
                   /\ DispatchOrder[p] = requeued[s].first + j - 1
                   /\ p > Len(handled) =>
                          event_queue[p - Len(handled)].name = InitialEvents[j].name

\* A storage special event was dequeued with an event queued behind it,
\* and its first initial event has been dequeued since.
C9_Witness ==
    \E s \in DOMAIN requeued :
        /\ requeued[s].behind > 0
        /\ requeued[s].first \in Range(handled)

\* ------------------------------------------------------ the uploads' claims
NewCalls == DOMAIN uploads' \ DOMAIN uploads

\* C6: no two pending uploads share an upload_id, the controller
\* registered under a pending upload's id is that upload's own, and a call
\* made while its upload_id is registered issues no request, resolves to
\* false and leaves the registered controller as it is.
C6_UploadIdExclusive ==
    /\ [](/\ \A a, b \in Pending : uploads[a].upload_id = uploads[b].upload_id => a = b
          /\ \A a \in Pending : upload_controllers[uploads[a].upload_id] = a)
    /\ [][ \A b \in NewCalls :
               upload_controllers[uploads'[b].upload_id] # 0 =>
                   /\ ~uploads'[b].issued
                   /\ uploads'[b].ret = "false"
                   /\ upload_controllers'[uploads'[b].upload_id]
                          = upload_controllers[uploads'[b].upload_id] ]_vars

\* A call with files and the upload_id of a pending upload was turned
\* away, and the earlier upload is still pending.
C6_Witness ==
    \E a \in Pending, b \in DOMAIN uploads :
        /\ b > a
        /\ uploads[a].upload_id = "u1"
        /\ uploads[b].upload_id = "u1"
        /\ ~uploads[b].issued

\* C7: a controller is registered only while its request is pending, so
\* every way a request ends removes it; a request that fails resolves its
\* call to false; and a call for an upload_id that is not registered is
\* accepted.
C7_UploadCleanup ==
    /\ [](/\ \A u \in UploadIds : upload_controllers[u] # 0 => upload_controllers[u] \in Pending
          /\ \A id \in DOMAIN uploads :
                 /\ uploads[id].status = "done" => uploads[id].ret \in {"false", "response"}
                 /\ uploads[id].outcome \in Outcomes \ {"success"} => uploads[id].ret = "false")
    /\ [][ \A b \in NewCalls :
               (upload_controllers[uploads'[b].upload_id] = 0 /\ uploads'[b].upload_id = "u1") =>
                   \E c \in NewCalls :
                       /\ c <= b
                       /\ uploads'[c].upload_id = "u1"
                       /\ uploads'[c].issued ]_vars

\* An upload whose request failed before any response, and a later upload
\* with the same upload_id that was accepted.
C7_Witness ==
    \E a, b \in DOMAIN uploads :
        /\ a < b
        /\ uploads[a].upload_id = uploads[b].upload_id
        /\ uploads[a].outcome \in {"no_response", "setup_error"}
        /\ uploads[b].issued
        /\ \E c \in DOMAIN uploads : uploads[c].outcome = "error_response"

\* C19: a step does not end with the gate Processing for a handler-tagged
\* event: when the event dequeued last in a step is one, whether it
\* started an upload, was turned away by uploadFiles or names another
\* handler, the step ends with the gate Idle and the queue drained to its
\* end.
C19_HandlerNeverHoldsGate ==
    [][ (owner' # owner /\ owner'.handler # "") =>
            (~event_processing' /\ event_queue' = << >>) ]_vars

\* An upload is pending while an event dequeued after it is in flight, and
\* uploadFiles turned a later call away.
C19_Witness ==
    /\ \E a \in Pending : \E i \in 1..Len(inflight) : inflight[i].id > a
    /\ \E b \in DOMAIN uploads : ~uploads[b].issued
    /\ event_processing

\* C20: with a socket, whenever a task has ended, the queue is empty or
\* an event is in flight or a _call_script awaits its promise: events do
\* not wait in the queue with nothing left that will dequeue them.
C20_NoIdleBacklog ==
    (socket /\ event_queue # << >>) => (inflight # << >> \/ suspended # {})

\* The request of a pending upload ended in this step.
UploadEnded == \E id \in Pending : uploads'[id].status = "done"

\* C21: the end of an upload's request, with a response or with a failure,
\* leaves event_queue as it is, and leaves the gate Idle when no event sent
\* on the socket awaits its final Update and no _call_script awaits its
\* promise.
C21_UploadEndOffQueue ==
    [][ UploadEnded =>
            /\ event_queue' = event_queue
            /\ (inflight' = << >> /\ suspended' = {}) => ~event_processing' ]_vars

\* -------------------------------------------------- the connection's claims
\* C10: the list holds the errors of the connect_error callbacks since the
\* last connect callback, in the order of their arrival.
C10_ErrorsAccumulate == connectErrors = errorsArrived

\* An event was sent, the connection dropped before its final Update, and
\* no other event is in flight and no _call_script is suspended.
Stuck ==
    /\ event_processing
    /\ inflight # << >>
    /\ Replying(inflight) = 0
    /\ suspended = {}

C13_TokenStable ==
    /\ [](/\ Cardinality(tokens) <= 1
          /\ tokens # {} => tokens = {token})
    /\ [][ token # 0 => token' = token ]_vars

\* Two events were emitted and an upload request issued with a token that
\* getToken generated, and sessionStorage was cleared in between.
C13_Witness ==
    /\ Len(sent) >= 2
    /\ \E id \in DOMAIN uploads : uploads[id].issued
    /\ generated = 1
    /\ session_storage = 0
    /\ emitted.event.id > 2

\* C14: the event given to socket.emit has the token and the router_data
\* the event carried when it carried one, the token of getToken and the
\* current route otherwise, and all its other fields as they were.
C14_EnrichOnlyAbsent ==
    emitted.ran =>
        /\ emitted.message.token =
               IF emitted.event.token # 0 THEN emitted.event.token ELSE token
        /\ emitted.message.router_data =
               IF emitted.event.router_data # "" THEN emitted.event.router_data ELSE Router
        /\ DOMAIN emitted.message = DOMAIN emitted.event
        /\ \A f \in DOMAIN emitted.event \ {"token", "router_data"} :
               emitted.message[f] = emitted.event[f]

\* ------------------------------------------------------ the deltas' claims
\* C4: after an Update is handled, every field its delta names has the
\* delta's value, whatever value it had; every other field of a substate
\* the delta names, and every substate it does not name, is as before; and
\* applying the delta once more changes nothing.
C4_ShallowMerge ==
    (last.ran /\ ~last.threw) =>
        /\ DOMAIN state = DOMAIN last.prev
        /\ \A sub \in DOMAIN state :
               IF sub \in DOMAIN last.delta
               THEN /\ DOMAIN state[sub] = DOMAIN last.prev[sub] \cup DOMAIN last.delta[sub]
                    /\ \A f \in DOMAIN last.delta[sub] : state[sub][f] = last.delta[sub][f]
                    /\ \A f \in DOMAIN last.prev[sub] \ DOMAIN last.delta[sub] :
                           state[sub][f] = last.prev[sub][f]
               ELSE state[sub] = last.prev[sub]
        /\ DispatchFrom(state, last.delta, 1).state = state

\* The delta replaced a nested value by one with other fields, and left a
\* field of the same substate alone.
C4_Witness ==
    /\ last.ran
    /\ "state.sub" \in DOMAIN last.delta
    /\ "x" \in DOMAIN last.delta["state.sub"]
    /\ DOMAIN last.delta["state.sub"].x # DOMAIN last.prev["state.sub"].x
    /\ "y" \notin DOMAIN last.delta["state.sub"]
    /\ last.prev["state.sub"].y # S(0)

\* The delta has one unqualified substate, and that one says is_hydrated
\* is false.
HydratedFalse(delta) ==
    \E k \in DOMAIN delta :
        /\ Dotless(k)
        /\ \A k2 \in DOMAIN delta : Dotless(k2) => k2 = k
        /\ "is_hydrated" \in DOMAIN delta[k]
        /\ delta[k].is_hydrated = S(0)

\* The (substate, field) pairs of a delta whose state key is configured.
StoredPairs(delta) ==
    { pair \in (DOMAIN delta) \X {"is_hydrated", "x", "y"} :
        /\ pair[2] \in DOMAIN delta[pair[1]]
        /\ StateKey(pair[1], pair[2]) \in
               DOMAIN client_storage.cookies \cup DOMAIN client_storage.local_storage }

WrittenName(key) ==
    IF key \in DOMAIN client_storage.cookies
    THEN IF client_storage.cookies[key].name # "" THEN client_storage.cookies[key].name ELSE key
    ELSE IF client_storage.local_storage[key].name # ""
         THEN client_storage.local_storage[key].name ELSE key

\* C5: a delta whose only unqualified substate says is_hydrated is false
\* causes no write to the cookies or to localStorage; any other delta
\* causes a write for each of its fields whose state key is configured.
C5_StorageGating ==
    (last.ran /\ ~last.threw) =>
        IF HydratedFalse(last.delta)
        THEN last.writes = << >>
        ELSE \A pair \in StoredPairs(last.delta) :
                 \E i \in 1..Len(last.writes) :
                     last.writes[i].name = WrittenName(StateKey(pair[1], pair[2]))

\* The writes of the last run of the message handler to store under name.
WritesTo(store, name) ==
    {i \in 1..Len(last.writes) : last.writes[i].store = store /\ last.writes[i].name = name}

ConfiguredName(config, key) == IF config[key].name # "" THEN config[key].name ELSE key

\* The entries of a store that a step added or changed.
Touched(before, after) ==
    {n \in DOMAIN after : n \notin DOMAIN before \/ after[n] # before[n]}

\* C15: for a delta that is not held back, a field whose state key is in
\* the cookie configuration is written once, to the cookie of its
\* configured name, and not to localStorage; any other field whose state
\* key is in the localStorage configuration is written once, to the
\* localStorage entry of its configured name; there are no other writes, and
\* no entry of either store is removed or changed without a write.
C15_PersistRouting ==
    /\ []((last.ran /\ ~last.threw /\ ~HydratedFalse(last.delta)) =>
            /\ \A sub \in DOMAIN last.delta : \A f \in DOMAIN last.delta[sub] :
                   LET key == StateKey(sub, f)
                   IN  IF key \in DOMAIN client_storage.cookies
                       THEN LET n == ConfiguredName(client_storage.cookies, key)
                            IN  /\ Cardinality(WritesTo("cookie", n)) = 1
                                /\ \A i \in WritesTo("cookie", n) :
                                       last.writes[i].value = CookieString(last.delta[sub][f])
                                /\ key \in DOMAIN client_storage.local_storage =>
                                       WritesTo("local",
                                                ConfiguredName(client_storage.local_storage, key)) = {}
                       ELSE IF key \in DOMAIN client_storage.local_storage
                       THEN LET n == ConfiguredName(client_storage.local_storage, key)
                            IN  /\ Cardinality(WritesTo("local", n)) = 1
                                /\ \A i \in WritesTo("local", n) :
                                       last.writes[i].value = StringOf(last.delta[sub][f])
                       ELSE TRUE
            /\ Len(last.writes) = Cardinality(StoredPairs(last.delta)))
    /\ [][ /\ DOMAIN cookies \subseteq DOMAIN cookies'
           /\ DOMAIN local_storage \subseteq DOMAIN local_storage'
           /\ \A n \in Touched(cookies, cookies') :
                  \E i \in 1..Len(last'.writes) :
                      /\ last'.writes[i].store = "cookie"
                      /\ last'.writes[i].name = n
           /\ \A n \in Touched(local_storage, local_storage') :
                  \E i \in 1..Len(last'.writes) :
                      /\ last'.writes[i].store = "local"
                      /\ last'.writes[i].name = n ]_vars

\* A delta with two configured fields was written, one of them configured
\* for both stores, and localStorage holds an entry of an earlier delta.
C15_Witness ==
    /\ last.ran /\ ~last.threw
    /\ "state" \in DOMAIN last.delta
    /\ "x" \in DOMAIN last.delta["state"]
    /\ "state.x" \in DOMAIN client_storage.cookies \cap DOMAIN client_storage.local_storage
    /\ Len(last.writes) >= 2
    /\ "ly" \in DOMAIN local_storage
    /\ "cx" \in DOMAIN cookies

\* C16: the result of hydrateClientStorage has a key for exactly the
\* configured state keys whose cookie or localStorage entry, of the
\* configured name or else of the state key, exists; each key has the
\* value stored there; the result is empty without a configuration; and
\* the call leaves the stores as they are.
C16_HydrationExact ==
    /\ [](hydration.ran =>
            /\ DOMAIN hydration.values =
                   {k \in DOMAIN client_storage.cookies :
                       ConfiguredName(client_storage.cookies, k) \in DOMAIN hydration.cookies}
                   \cup
                   {k \in DOMAIN client_storage.local_storage :
                       ConfiguredName(client_storage.local_storage, k)
                           \in DOMAIN hydration.local_storage}
            /\ \A k \in DOMAIN hydration.values :
                   \/ /\ k \in DOMAIN client_storage.cookies
                      /\ ConfiguredName(client_storage.cookies, k) \in DOMAIN hydration.cookies
                      /\ hydration.values[k] =
                             hydration.cookies[ConfiguredName(client_storage.cookies, k)]
                   \/ /\ k \in DOMAIN client_storage.local_storage
                      /\ ConfiguredName(client_storage.local_storage, k)
                             \in DOMAIN hydration.local_storage
                      /\ hydration.values[k] =
                             hydration.local_storage[ConfiguredName(client_storage.local_storage, k)]
            /\ (DOMAIN client_storage.cookies = {} /\ DOMAIN client_storage.local_storage = {})
                   => DOMAIN hydration.values = {})
    /\ [][ hydration' # hydration =>
               /\ cookies' = cookies /\ local_storage' = local_storage
               /\ hydration'.cookies = cookies /\ hydration'.local_storage = local_storage ]_vars

\* The result has a key stored under a configured name, lacks a configured
\* key that has no stored value, and entries exist under names that are
\* not configured.
C16_Witness ==
    /\ hydration.ran
    /\ "state.x" \in DOMAIN hydration.values
    /\ "cx" \in DOMAIN hydration.cookies
    /\ "state.x" \in DOMAIN hydration.cookies
    /\ "state.y" \in DOMAIN client_storage.local_storage
    /\ "state.y" \notin DOMAIN hydration.values

\* A delta that is held back although it names configured fields in more
\* than one substate.
C5_Witness ==
    /\ last.ran
    /\ HydratedFalse(last.delta)
    /\ Cardinality(DOMAIN last.delta) > 1
    /\ Cardinality(StoredPairs(last.delta)) > 1

\* C11: a final Update is handled without an error whatever substates its
\* delta names, the storage values of its delta are written, and it leaves
\* the gate Idle unless its handling dequeued the next event.
C11_UnknownTolerated ==
    [][ Len(inflight') < Len(inflight) =>
            /\ ~last'.threw
            /\ \A pair \in StoredPairs(last'.delta) :
                   HydratedFalse(last'.delta) \/
                   \E i \in 1..Len(last'.writes) :
                       last'.writes[i].name = WrittenName(StateKey(pair[1], pair[2]))
            /\ event_processing' => Len(handled') > Len(handled) ]_vars

\* ------------------------------------------------------ the stream's claims
\* The lines of a response text: the runs of characters that a newline
\* ends, and the run after the last newline once it is a whole Update.
RECURSIVE LinesOf(_, _)
LinesOf(text, run) ==
    IF text = << >>
    THEN IF Len(run) = 3 /\ run[3] = "}" THEN << run >> ELSE << >>
    ELSE IF Head(text) = Newline
    THEN << run >> \o LinesOf(Tail(text), << >>)
    ELSE LinesOf(Tail(text), Append(run, Head(text)))

\* C8: the chunks handed to the message handler are the complete lines of
\* the response text the last progress event saw, each once and in their
\* order, whatever the pieces in which the text arrived; resp_idx counts
\* them.
C8_CursorCorrect ==
    \A id \in Pending :
        /\ uploads[id].delivered = LinesOf(uploads[id].seen, << >>)
        /\ uploads[id].resp_idx = Len(uploads[id].delivered)

MidLine(text) == text # << >> /\ text[Len(text)] \in {"{", "n-", "f0"}

\* A progress event handed over the first line and saw the second one cut
\* in its middle.
C8_Witness ==
    \E id \in Pending :
        /\ Len(uploads[id].delivered) >= 1
        /\ MidLine(uploads[id].seen)

\* A progress event ran in this step and handed no line over.
TickWithoutDelivery ==
    \E id \in Pending :
        /\ id \in DOMAIN uploads'
        /\ uploads'[id].status = "pending"
        /\ uploads'[id].seen # uploads[id].seen
        /\ uploads'[id].delivered = uploads[id].delivered

\* C22: the chunks handed over without a throw are the first resp_idx
\* lines of the response text the last progress event saw, each once and
\* in their order, so a line that throws holds back the lines after it and
\* no line is handed over twice; and a progress event all of whose lines
\* throw leaves resp_idx, the state, the stores and the gate as they were.
C22_CursorCountsDelivered ==
    /\ [](\A id \in Pending :
              /\ uploads[id].resp_idx <= Len(LinesOf(uploads[id].seen, << >>))
              /\ uploads[id].delivered
                     = SubSeq(LinesOf(uploads[id].seen, << >>), 1, uploads[id].resp_idx))
    /\ [][ TickWithoutDelivery =>
               /\ \A id \in Pending : uploads'[id].resp_idx = uploads[id].resp_idx
               /\ state' = state
               /\ cookies' = cookies
               /\ local_storage' = local_storage
               /\ event_processing' = event_processing ]_vars

====
